---------------------------- MODULE Spec2Model ----------------------------
(***************************************************************************)
(* Model of src/src/mcp/server.py: the bing_search tool, the lazily built  *)
(* agent client, and query_agent (create thread, post message, create run, *)
(* poll, extract).                                                         *)
(*                                                                         *)
(* Texts are sequences of string tokens whose concatenation is the text.   *)
(* Everything that passes through str.strip() is kept at character level   *)
(* (one token per character); fixed message prefixes that are never        *)
(* stripped are single tokens.  None is the text NoneVal.                  *)
(***************************************************************************)
EXTENDS Integers, Sequences, FiniteSets, TLC

(***************************************************************************)
(* Bounds of the model.                                                    *)
(***************************************************************************)
\* fetches of one run's status the model follows in one invocation
MaxPolls == 3
\* bing_search calls one task makes one after the other
MaxCalls == 2
\* text segments of one agent message
MaxSegs == 2
\* URL-citation annotations of one agent message
MaxAnn == 3
\* messages the platform lists for one thread
MaxMsgs == 3

(***************************************************************************)
(* Python values.                                                          *)
(***************************************************************************)
NoneVal == <<"<None>">>

\* Python truthiness of an Optional[str]: None and "" are falsy.
Truthy(v) == v # NoneVal /\ v # <<>>

\* str(v) / f"{v}" of an optional text: None prints as "None".
Format(v) == IF v = NoneVal THEN <<"N", "o", "n", "e">> ELSE v

\* the characters str.strip() removes
Whitespace == {" ", "\n", "\t", "\r"}

RECURSIVE LStrip(_)
LStrip(s) ==
    IF s # <<>> /\ Head(s) \in Whitespace THEN LStrip(Tail(s)) ELSE s

RECURSIVE RStrip(_)
RStrip(s) ==
    IF s # <<>> /\ s[Len(s)] \in Whitespace
    THEN RStrip(SubSeq(s, 1, Len(s) - 1))
    ELSE s

\* str.strip(): both ends
Strip(s) == LStrip(RStrip(s))

\* x in list
InList(x, list) == \E i \in 1..Len(list) : list[i] = x

SeqsUpTo(S, n) == UNION {[1..k -> S] : k \in 0..n}

(***************************************************************************)
(* Extraction, server.py lines 98-127.                                     *)
(***************************************************************************)
RoleUser == "user"
RoleAgent == "agent"

\* line 99: response_message = None
NoMessage ==
    [role |-> "", text_messages |-> <<>>, url_citation_annotations |-> <<>>]

\* the selection without the role test: the last listed message
SelectResponse_AnyRole(msgs, response_message) ==
    IF msgs = <<>> THEN response_message ELSE msgs[Len(msgs)]

\* a selection that stops at the first message whose role is AGENT
SelectResponse_FirstAgent(msgs, response_message) ==
    IF \E i \in DOMAIN msgs : msgs[i].role = RoleAgent
    THEN msgs[CHOOSE i \in DOMAIN msgs :
                 /\ msgs[i].role = RoleAgent
                 /\ \A j \in 1..(i - 1) : msgs[j].role # RoleAgent]
    ELSE response_message

\* lines 99-102: the last listed message whose role is AGENT, else None
RECURSIVE SelectResponse(_, _)
SelectResponse(msgs, response_message) ==
    IF msgs = <<>> THEN response_message
    ELSE SelectResponse(Tail(msgs),
                        IF Head(msgs).role = RoleAgent
                        THEN Head(msgs) ELSE response_message)

\* lines 108-109: result += text_message.text.value + "\n"
RECURSIVE ConcatText(_, _)
ConcatText(text_messages, result) ==
    IF text_messages = <<>> THEN result
    ELSE ConcatText(Tail(text_messages),
                    result \o Head(text_messages) \o <<"\n">>)

\* line 112: f"[{title}]({url})"
RenderCitation(annotation) ==
    <<"[">> \o annotation.title \o <<"]", "(">> \o annotation.url \o <<")">>

\* the append without the membership test
AppendCitation_NoDedup(citations, citation) == Append(citations, citation)

\* lines 113-114: append unless already in the list
AppendCitation(citations, citation) ==
    IF InList(citation, citations) THEN citations
    ELSE Append(citations, citation)

\* lines 111-114
RECURSIVE CollectCitations(_, _)
CollectCitations(annotations, citations) ==
    IF annotations = <<>> THEN citations
    ELSE CollectCitations(Tail(annotations),
             AppendCitation(citations, RenderCitation(Head(annotations))))

\* line 117: "\n\n## Sources\n"
SourcesHeader ==
    <<"\n", "\n", "#", "#", " ", "S", "o", "u", "r", "c", "e", "s", "\n">>

\* line 119: f"- {citation}\n"
SourceLine(citation) == <<"-", " ">> \o citation \o <<"\n">>

\* lines 118-119
RECURSIVE SourceLines(_, _)
SourceLines(citations, result) ==
    IF citations = <<>> THEN result
    ELSE SourceLines(Tail(citations), result \o SourceLine(Head(citations)))

\* lines 116-119
WithSources(result, citations) ==
    IF citations # <<>>
    THEN SourceLines(citations, result \o SourcesHeader)
    ELSE result

\* the trimming of the right end only
FinalText_RStrip(result) == RStrip(result)

\* line 125: result.strip()
FinalText(result) == Strip(result)

\* lines 98-119: the result text (before strip) and the citations
Extract(msgs) ==
    LET response_message == SelectResponse(msgs, NoMessage)
        found == response_message # NoMessage
        text == IF found
                THEN ConcatText(response_message.text_messages, <<>>)
                ELSE <<>>
        citations == IF found
                     THEN CollectCitations(
                              response_message.url_citation_annotations, <<>>)
                     ELSE <<>>
    IN [result |-> WithSources(text, citations), citations |-> citations]

\* lines 121-127
SuccessResult(tid, rid, msgs) ==
    LET e == Extract(msgs)
    IN [success |-> TRUE, thread_id |-> tid, run_id |-> rid,
        result |-> FinalText(e.result), citations |-> e.citations]

\* the message without the platform's error text
RunFailedMessage_NoDetail(last_error) == <<"Agent run failed">>

\* line 88: f"Agent run failed: {run.last_error}"
RunFailedMessage(last_error) == <<"Agent run failed: ">> \o Format(last_error)

\* a failure Result that leaves the run's identifier out
FailureResult_NoRunId(tid, rid, last_error) ==
    [success |-> FALSE, error |-> RunFailedMessage(last_error),
     thread_id |-> tid,
     result |-> <<"Error: ">> \o RunFailedMessage(last_error)]

\* lines 90-96
FailureResult(tid, rid, last_error) ==
    [success |-> FALSE, error |-> RunFailedMessage(last_error),
     thread_id |-> tid, run_id |-> rid,
     result |-> <<"Error: ">> \o RunFailedMessage(last_error)]


(***************************************************************************)
(* Error shaping, server.py lines 129-131 and 153-167.                     *)
(***************************************************************************)
\* line 155
NotInitializedError ==
    [error |-> <<"Bing Search service is ", "not initialized",
                 ". Check AZURE_AI_FOUNDRY_PROJECT_ENDPOINT and ",
                 "AZURE_AI_FOUNDRY_AGENT_ID environment variables.">>]

\* line 160
ClientInitError == [error |-> <<"Failed to initialize Bing Search client.">>]

\* what a coroutine hands to its awaiter: a returned value or a raised exception
Returned(value) == [kind |-> "return", value |-> value]
Raised(e) == [kind |-> "raise", value |-> e]

\* lines 129-131: log, then re-raise
QueryAgentExcept(e) == Raised(e)

\* the call of query_agent without the try: an exception goes to the caller
BingSearchTry_NoExcept(outcome) == outcome

\* lines 162-167: return the response, or the error payload for an exception
BingSearchTry(outcome) ==
    IF outcome.kind = "raise"
    THEN Returned([error |-> <<"Error performing Bing search: ">>
                             \o outcome.value])
    ELSE outcome

(***************************************************************************)
(* The environment: configuration values, the platform's agents, run       *)
(* statuses and errors, and the thread listings it can return.             *)
(***************************************************************************)
Tasks == {1, 2}

\* os.environ.get(...) of lines 184-185: unset, empty or set
EndpointValues == {NoneVal, <<>>, <<"https://project.example">>}
AgentIdValues == {NoneVal, <<>>, <<"asst_1">>, <<"asst_gone">>}

\* the agents the platform knows
KnownAgents == {<<"asst_1">>}

\* line 83
NonTerminal == {"queued", "in_progress", "requires_action"}
Terminal == {"completed", "failed", "cancelled", "expired"}
Statuses == NonTerminal \cup Terminal

\* run.last_error of a failed run, as text (None when the platform gives none)
LastErrors == {NoneVal, <<>>, <<"rate_limit_exceeded">>}

\* str(e) of an exception a remote call raises
ExcMessages == {<<>>, <<"HTTP 503">>}

Query == <<"Q">>

Message(role, texts, annotations) ==
    [role |-> role, text_messages |-> texts,
     url_citation_annotations |-> annotations]

UserMsg == Message(RoleUser, <<Query>>, <<>>)

\* text segments: plain, with leading and trailing whitespace, empty, a line break
SegPool == {<<"A">>, <<"B">>, <<" ", "C", " ">>, <<>>, <<"\n">>}

\* annotations; the last two render to the same string "[a](b](c)"
AnnPool ==
    {[title |-> <<"a">>, url |-> <<"c">>],
     [title |-> <<"a">>, url |-> <<"b", "]", "(", "c">>],
     [title |-> <<"a", "]", "(", "b">>, url |-> <<"c">>]}

AnnA == [title |-> <<"a">>, url |-> <<"c">>]
AnnB == [title |-> <<"a">>, url |-> <<"b", "]", "(", "c">>]

AgentPlain == Message(RoleAgent, <<<<"A">>, <<"B">>>>, <<>>)
AgentCited == Message(RoleAgent, <<<<"B">>>>, <<AnnA, AnnB, AnnA>>)
AgentEmpty == Message(RoleAgent, <<>>, <<>>)
UserCited == Message(RoleUser, <<<<"A">>>>, <<AnnB>>)

\* a thread lists at least the message the invocation posted
HasQuery(msgs) == InList(UserMsg, msgs)

\* listings of several messages, in the platform's order
MultiListings ==
    {msgs \in SeqsUpTo({UserMsg, UserCited, AgentPlain, AgentCited, AgentEmpty},
                       MaxMsgs) : HasQuery(msgs)}

\* listings of the query and one agent message, over all texts and annotations
SingleListings ==
    {<<UserMsg, Message(RoleAgent, tx, <<AnnA, AnnB, AnnA>>)>> :
        tx \in SeqsUpTo(SegPool, MaxSegs)}
    \cup {<<Message(RoleAgent, <<<<"A">>>>, an), UserMsg>> :
        an \in SeqsUpTo(AnnPool, MaxAnn)}
    \cup {<<Message(RoleAgent, <<>>, an), UserMsg>> :
        an \in SeqsUpTo(AnnPool, MaxAnn)}
    \cup {<<UserMsg, Message(RoleAgent, tx, <<>>)>> :
        tx \in SeqsUpTo(SegPool, MaxSegs)}

FewListings ==
    {<<UserMsg>>, <<AgentPlain, UserMsg>>, <<UserMsg, AgentPlain, AgentCited>>,
     <<AgentCited, UserCited, UserMsg, AgentEmpty>>}

(***************************************************************************)
(* State.                                                                  *)
(***************************************************************************)
VARIABLES
    mode,         \* which environment this behaviour explores
    AZURE_AI_FOUNDRY_PROJECT_ENDPOINT,    \* line 45
    AZURE_AI_FOUNDRY_AGENT_ID,    \* line 46
    AI_CLIENT,    \* the shared client handle (line 47)
    built,        \* AIProjectClient constructions attempted so far
    running,      \* the task that holds the event loop between two
                  \*   suspensions, 0 when the loop is free
    pc,           \* per task: the await it is suspended at
    ncalls,       \* per task: bing_search calls started
    thread_id,    \* per task: query_agent's local thread_id
    run_id,       \* per task: query_agent's local run_id
    run,          \* per task: query_agent's local run (status, last_error)
    client,       \* per task: query_agent's client argument
    remote,       \* per task: the platform's state of the run it created
    listed,       \* per task: the messages messages.list returned
    ret,          \* per task: what bing_search handed back
    log,          \* per task: this invocation's client constructions,
                  \*           remote calls and sleeps, in order
    nextThread,   \* platform: threads created so far
    nextRun       \* platform: runs created so far

vars == <<mode, AZURE_AI_FOUNDRY_PROJECT_ENDPOINT, AZURE_AI_FOUNDRY_AGENT_ID,
          AI_CLIENT, built, running, pc, ncalls, thread_id,
          run_id, run, client, remote, listed, ret, log, nextThread, nextRun>>

config == <<mode, AZURE_AI_FOUNDRY_PROJECT_ENDPOINT, AZURE_AI_FOUNDRY_AGENT_ID>>

NoRun == [status |-> "", last_error |-> NoneVal]
NoRet == [kind |-> "pending", value |-> [pending |-> TRUE]]

ThreadId(n) == <<"thread_", ToString(n)>>
RunId(n) == <<"run_", ToString(n)>>
ClientHandle(n) == <<"AIProjectClient#", ToString(n)>>

\* the tasks that call the tool, the polls followed and the listings returned
Active == IF mode = "conc" THEN Tasks ELSE {1}
PollCap == IF mode = "seq" THEN MaxPolls ELSE 1
CallCap == IF mode \in {"conc", "live"} THEN 2 ELSE MaxCalls
Listings ==
    IF mode = "extract" THEN MultiListings \cup SingleListings
    ELSE IF mode \in {"conc", "live"}
         THEN {<<UserMsg>>, <<UserMsg, AgentPlain, AgentCited>>}
    ELSE FewListings

\* what a remote call raises with
Raises ==
    IF mode \in {"conc", "live"} THEN {<<"HTTP 503">>} ELSE ExcMessages

Entry(op, tid, rid, status, raised) ==
    [op |-> op, thread_id |-> tid, run_id |-> rid, status |-> status,
     raised |-> raised]

Count(entries, op) ==
    Cardinality({i \in DOMAIN entries : entries[i].op = op})

InitMode(m) ==
    /\ mode = m
    /\ AZURE_AI_FOUNDRY_PROJECT_ENDPOINT \in EndpointValues
    /\ AZURE_AI_FOUNDRY_AGENT_ID \in AgentIdValues
    /\ AI_CLIENT = NoneVal
    /\ built = 0
    /\ running = 0
    /\ pc = [t \in Tasks |-> "idle"]
    /\ ncalls = [t \in Tasks |-> 0]
    /\ thread_id = [t \in Tasks |-> NoneVal]
    /\ run_id = [t \in Tasks |-> NoneVal]
    /\ run = [t \in Tasks |-> NoRun]
    /\ client = [t \in Tasks |-> NoneVal]
    /\ remote = [t \in Tasks |-> NoRun]
    /\ listed = [t \in Tasks |-> <<>>]
    /\ ret = [t \in Tasks |-> NoRet]
    /\ log = [t \in Tasks |-> <<>>]
    /\ nextThread = 0
    /\ nextRun = 0

Init == InitMode("seq")
InitExtract == InitMode("extract")
InitConc == InitMode("conc")
InitLive == InitMode("live")

(***************************************************************************)
(* bing_search, lines 153-167.  Tasks share one event loop: a task runs     *)
(* until an await suspends it, and no other task runs in between.  The     *)
(* await of line 158 is a step of its own; whether it gives the loop away  *)
(* is AwaitInitialize.                                                     *)
(***************************************************************************)
\* the check with the agent identifier forgotten
Configured_EndpointOnly == Truthy(AZURE_AI_FOUNDRY_PROJECT_ENDPOINT)

\* lines 154 and 54: both identifiers are set
Configured ==
    /\ Truthy(AZURE_AI_FOUNDRY_PROJECT_ENDPOINT)
    /\ Truthy(AZURE_AI_FOUNDRY_AGENT_ID)

CanCall(t) == pc[t] \in {"idle", "done"} /\ ncalls[t] < CallCap

\* a new invocation: query_agent's locals do not exist yet
StartCall(t) ==
    /\ ncalls' = [ncalls EXCEPT ![t] = @ + 1]
    /\ thread_id' = [thread_id EXCEPT ![t] = NoneVal]
    /\ run_id' = [run_id EXCEPT ![t] = NoneVal]
    /\ run' = [run EXCEPT ![t] = NoRun]
    /\ remote' = [remote EXCEPT ![t] = NoRun]
    /\ listed' = [listed EXCEPT ![t] = <<>>]

\* the event loop resumes a task when no task holds it, and the step ends at
\* an await that suspends
FromLoop == running = 0 /\ running' = 0

\* an await of initialize_agent_client that gives the event loop away
AwaitInitialize_Suspends(t) == 0

\* line 158: who holds the event loop while initialize_agent_client is
\* awaited.  The coroutine (lines 51-67) awaits nothing, so awaiting it runs
\* its body at once and the caller keeps the loop.
AwaitInitialize(t) == t

\* lines 154-155
CallNotConfigured(t) ==
    /\ FromLoop
    /\ CanCall(t)
    /\ ~Configured
    /\ StartCall(t)
    /\ log' = [log EXCEPT ![t] = <<>>]
    /\ ret' = [ret EXCEPT ![t] = Returned(NotInitializedError)]
    /\ pc' = [pc EXCEPT ![t] = "done"]
    /\ client' = [client EXCEPT ![t] = NoneVal]
    /\ UNCHANGED <<config, AI_CLIENT, built, nextThread, nextRun>>

\* lines 154-158: the handle is found unset, initialize_agent_client is awaited
CallInitialize(t) ==
    /\ running = 0
    /\ CanCall(t)
    /\ Configured
    /\ AI_CLIENT = NoneVal
    /\ StartCall(t)
    /\ running' = AwaitInitialize(t)
    /\ log' = [log EXCEPT ![t] = <<>>]
    /\ ret' = [ret EXCEPT ![t] = NoRet]
    /\ pc' = [pc EXCEPT ![t] = "initialize"]
    /\ client' = [client EXCEPT ![t] = NoneVal]
    /\ UNCHANGED <<config, AI_CLIENT, built, nextThread, nextRun>>

\* a failed construction that is not looked at: the query goes on without a
\* client
CallInitFails_Unchecked(t) ==
    /\ pc[t] = "initialize"
    /\ running \in {0, t}
    /\ running' = 0
    /\ built' = built + 1
    /\ log' = [log EXCEPT ![t] =
           <<Entry("construct", NoneVal, NoneVal, "", TRUE)>>]
    /\ ret' = ret
    /\ pc' = [pc EXCEPT ![t] = "get_agent"]
    /\ client' = [client EXCEPT ![t] = AI_CLIENT]
    /\ UNCHANGED <<config, AI_CLIENT, ncalls, thread_id, run_id, run, remote,
                   listed, nextThread, nextRun>>

\* lines 57-67 and 159-163: the construction raises and the handle is left as
\* it is; line 159 reads it again
CallInitFails(t) ==
    /\ pc[t] = "initialize"
    /\ running \in {0, t}
    /\ running' = 0
    /\ built' = built + 1
    /\ log' = [log EXCEPT ![t] =
           <<Entry("construct", NoneVal, NoneVal, "", TRUE)>>]
    /\ IF AI_CLIENT = NoneVal
       THEN /\ ret' = [ret EXCEPT ![t] = Returned(ClientInitError)]
            /\ pc' = [pc EXCEPT ![t] = "done"]
            /\ client' = client
       ELSE /\ ret' = ret
            /\ pc' = [pc EXCEPT ![t] = "get_agent"]
            /\ client' = [client EXCEPT ![t] = AI_CLIENT]
    /\ UNCHANGED <<config, AI_CLIENT, ncalls, thread_id, run_id, run, remote,
                   listed, nextThread, nextRun>>

\* lines 57-64 and 159-163 with line 73: the handle is built and written;
\* query_agent starts
CallInitOk(t) ==
    /\ pc[t] = "initialize"
    /\ running \in {0, t}
    /\ running' = 0
    /\ built' = built + 1
    /\ AI_CLIENT' = ClientHandle(built + 1)
    /\ log' = [log EXCEPT ![t] =
           <<Entry("construct", NoneVal, NoneVal, "", FALSE)>>]
    /\ client' = [client EXCEPT ![t] = AI_CLIENT']
    /\ pc' = [pc EXCEPT ![t] = "get_agent"]
    /\ UNCHANGED <<config, ncalls, thread_id, run_id, run, remote, listed,
                   ret, nextThread, nextRun>>

\* lines 154-163 with line 73: the handle is there; query_agent starts
CallQuery(t) ==
    /\ FromLoop
    /\ CanCall(t)
    /\ Configured
    /\ AI_CLIENT # NoneVal
    /\ StartCall(t)
    /\ log' = [log EXCEPT ![t] = <<>>]
    /\ client' = [client EXCEPT ![t] = AI_CLIENT]
    /\ ret' = [ret EXCEPT ![t] = NoRet]
    /\ pc' = [pc EXCEPT ![t] = "get_agent"]
    /\ UNCHANGED <<config, AI_CLIENT, built, nextThread, nextRun>>

(***************************************************************************)
(* query_agent, lines 70-131.                                              *)
(***************************************************************************)
\* the record of the invocation's calls; where the loop is followed without
\* end, the record keeps the first MaxPolls rounds and the last fetch
Saturated(t) == mode = "live" /\ Count(log[t], "runs.get") >= MaxPolls

Logged(t, entry) ==
    log' = [log EXCEPT ![t] =
               IF Saturated(t) /\ entry.op = "sleep" THEN @
               ELSE IF Saturated(t) /\ entry.op = "runs.get"
                    THEN [@ EXCEPT ![Len(@)] = entry]
                    ELSE Append(@, entry)]

\* an exception handler that goes back to the step that raised
Fail_Retry(t, e) ==
    /\ ret' = ret
    /\ pc' = pc

\* a remote call raises: lines 129-131, then lines 165-167
Fail(t, e) ==
    /\ ret' = [ret EXCEPT ![t] = BingSearchTry(QueryAgentExcept(e))]
    /\ pc' = [pc EXCEPT ![t] = "done"]

\* a loop that does not wait for a run that requires action
Polling_NoRequiresAction(status) == status \in {"queued", "in_progress"}

\* line 83: the loop goes on
Polling(status) == status \in NonTerminal

\* the failure test with a status name the platform never reports
RunFailed_WrongLiteral(status) == status = "error"

\* line 87
RunFailed(status) == status = "failed"

\* the poll loop without its sleep: the status is fetched again at once
AfterStatus_NoSleep(t, r, tid, rid) ==
    IF Polling(r.status)
    THEN /\ pc' = [pc EXCEPT ![t] = "runs_get"]
         /\ ret' = ret
    ELSE IF RunFailed(r.status)
    THEN /\ pc' = [pc EXCEPT ![t] = "done"]
         /\ ret' = [ret EXCEPT ![t] =
                BingSearchTry(Returned(FailureResult(tid, rid, r.last_error)))]
    ELSE /\ pc' = [pc EXCEPT ![t] = "messages_list"]
         /\ ret' = ret

\* a poll loop with an attempt cap: after the second fetch it gives up
AfterStatus_AttemptCap(t, r, tid, rid) ==
    IF Polling(r.status) /\ Count(log[t], "runs.get") < 1
    THEN /\ pc' = [pc EXCEPT ![t] = "sleep"]
         /\ ret' = ret
    ELSE IF RunFailed(r.status) \/ Polling(r.status)
    THEN /\ pc' = [pc EXCEPT ![t] = "done"]
         /\ ret' = [ret EXCEPT ![t] =
                BingSearchTry(Returned(FailureResult(tid, rid, r.last_error)))]
    ELSE /\ pc' = [pc EXCEPT ![t] = "messages_list"]
         /\ ret' = ret

\* a loop exit that takes every status but 'completed' for a failure
AfterStatus_OnlyCompleted(t, r, tid, rid) ==
    IF Polling(r.status)
    THEN /\ pc' = [pc EXCEPT ![t] = "sleep"]
         /\ ret' = ret
    ELSE IF r.status # "completed"
    THEN /\ pc' = [pc EXCEPT ![t] = "done"]
         /\ ret' = [ret EXCEPT ![t] =
                BingSearchTry(Returned(FailureResult(tid, rid, r.last_error)))]
    ELSE /\ pc' = [pc EXCEPT ![t] = "messages_list"]
         /\ ret' = ret

\* lines 83-98 once a run value is at hand: sleep, return the failure, or list
AfterStatus(t, r, tid, rid) ==
    IF Polling(r.status)
    THEN /\ pc' = [pc EXCEPT ![t] = "sleep"]
         /\ ret' = ret
    ELSE IF RunFailed(r.status)
    THEN /\ pc' = [pc EXCEPT ![t] = "done"]
         /\ ret' = [ret EXCEPT ![t] =
                BingSearchTry(Returned(FailureResult(tid, rid, r.last_error)))]
    ELSE /\ pc' = [pc EXCEPT ![t] = "messages_list"]
         /\ ret' = ret

\* what the platform can report for a run
RunValues ==
    {[status |-> s, last_error |-> e] : s \in Statuses, e \in LastErrors}
    \ {rv \in [status : Statuses, last_error : LastErrors] :
          rv.status # "failed" /\ rv.last_error # NoneVal}

\* what the platform reports where tasks interleave: one status of each kind
Reports ==
    IF mode = "conc"
    THEN {rv \in RunValues :
             /\ rv.status \in {"requires_action", "completed", "failed"}
             /\ rv.status = "failed" => rv.last_error = <<"rate_limit_exceeded">>}
    ELSE RunValues

\* a lookup whose failure is swallowed: the query goes on
GetAgent_Unchecked(t) ==
    /\ FromLoop
    /\ pc[t] = "get_agent"
    /\ Logged(t, Entry("get_agent", NoneVal, NoneVal, "",
                       AZURE_AI_FOUNDRY_AGENT_ID \notin KnownAgents))
    /\ pc' = [pc EXCEPT ![t] = "threads_create"]
    /\ ret' = ret
    /\ UNCHANGED <<config, AI_CLIENT, built, ncalls, thread_id, run_id, run,
                   client, remote, listed, nextThread, nextRun>>

\* line 73
GetAgent(t) ==
    /\ FromLoop
    /\ pc[t] = "get_agent"
    /\ \/ /\ AZURE_AI_FOUNDRY_AGENT_ID \in KnownAgents
          /\ Logged(t, Entry("get_agent", NoneVal, NoneVal, "", FALSE))
          /\ pc' = [pc EXCEPT ![t] = "threads_create"]
          /\ ret' = ret
       \/ /\ Logged(t, Entry("get_agent", NoneVal, NoneVal, "", TRUE))
          /\ \E e \in Raises : Fail(t, e)
    /\ UNCHANGED <<config, AI_CLIENT, built, ncalls, thread_id, run_id, run,
                   client, remote, listed, nextThread, nextRun>>

\* lines 75-76
ThreadsCreate(t) ==
    /\ FromLoop
    /\ pc[t] = "threads_create"
    /\ \/ /\ nextThread' = nextThread + 1
          /\ thread_id' = [thread_id EXCEPT ![t] = ThreadId(nextThread + 1)]
          /\ Logged(t, Entry("threads.create", ThreadId(nextThread + 1),
                             NoneVal, "", FALSE))
          /\ pc' = [pc EXCEPT ![t] = "messages_create"]
          /\ ret' = ret
       \/ /\ Logged(t, Entry("threads.create", NoneVal, NoneVal, "", TRUE))
          /\ \E e \in Raises : Fail(t, e)
          /\ UNCHANGED <<nextThread, thread_id>>
    /\ UNCHANGED <<config, AI_CLIENT, built, ncalls, run_id, run, client,
                   remote, listed, nextRun>>

\* line 78
MessagesCreate(t) ==
    /\ FromLoop
    /\ pc[t] = "messages_create"
    /\ \/ /\ Logged(t, Entry("messages.create", thread_id[t], NoneVal, "",
                             FALSE))
          /\ pc' = [pc EXCEPT ![t] = "runs_create"]
          /\ ret' = ret
       \/ /\ Logged(t, Entry("messages.create", thread_id[t], NoneVal, "",
                             TRUE))
          /\ \E e \in Raises : Fail(t, e)
    /\ UNCHANGED <<config, AI_CLIENT, built, ncalls, thread_id, run_id, run,
                   client, remote, listed, nextThread, nextRun>>

\* lines 80-83 (and 87-98 when the run is created in a final status)
RunsCreate(t) ==
    /\ FromLoop
    /\ pc[t] = "runs_create"
    /\ \/ \E r \in Reports :
             /\ nextRun' = nextRun + 1
             /\ run_id' = [run_id EXCEPT ![t] = RunId(nextRun + 1)]
             /\ remote' = [remote EXCEPT ![t] = r]
             /\ run' = [run EXCEPT ![t] = r]
             /\ Logged(t, Entry("runs.create", thread_id[t],
                                RunId(nextRun + 1), r.status, FALSE))
             /\ AfterStatus(t, r, thread_id[t], RunId(nextRun + 1))
       \/ /\ Logged(t, Entry("runs.create", thread_id[t], NoneVal, "", TRUE))
          /\ \E e \in Raises : Fail(t, e)
          /\ UNCHANGED <<nextRun, run_id, remote, run>>
    /\ UNCHANGED <<config, AI_CLIENT, built, ncalls, thread_id, client,
                   listed, nextThread>>

\* line 84: asyncio.sleep(1)
Sleep(t) ==
    /\ FromLoop
    /\ pc[t] = "sleep"
    /\ mode = "live" \/ Count(log[t], "runs.get") < PollCap
    /\ Logged(t, Entry("sleep", NoneVal, NoneVal, "", FALSE))
    /\ pc' = [pc EXCEPT ![t] = "runs_get"]
    /\ UNCHANGED <<config, AI_CLIENT, built, ncalls, thread_id, run_id, run,
                   client, remote, listed, ret, nextThread, nextRun>>

\* a run object kept where all invocations see it: the fetch is for the run
\* created last, whoever created it
RunsGet_SharedRun(t) ==
    LET u == CHOOSE v \in Tasks : run_id[v] = RunId(nextRun)
    IN  /\ FromLoop
        /\ pc[t] = "runs_get"
        /\ run' = [run EXCEPT ![t] = remote[u]]
        /\ Logged(t, Entry("runs.get", thread_id[u], run_id[u],
                           remote[u].status, FALSE))
        /\ AfterStatus(t, remote[u], thread_id[u], run_id[u])
        /\ UNCHANGED <<config, AI_CLIENT, built, ncalls, thread_id, run_id,
                       client, remote, listed, nextThread, nextRun>>

\* line 85, then lines 83-98
RunsGet(t) ==
    /\ FromLoop
    /\ pc[t] = "runs_get"
    /\ \/ /\ run' = [run EXCEPT ![t] = remote[t]]
          /\ Logged(t, Entry("runs.get", thread_id[t], run_id[t],
                             remote[t].status, FALSE))
          /\ AfterStatus(t, remote[t], thread_id[t], run_id[t])
       \/ /\ Logged(t, Entry("runs.get", thread_id[t], run_id[t], "", TRUE))
          /\ \E e \in Raises : Fail(t, e)
          /\ run' = run
    /\ UNCHANGED <<config, AI_CLIENT, built, ncalls, thread_id, run_id,
                   client, remote, listed, nextThread, nextRun>>

\* the platform moves a run that is being polled; a final status stays
PlatformAdvance(t) ==
    /\ running' = running
    /\ pc[t] \in {"sleep", "runs_get"}
    /\ remote[t].status \in NonTerminal
    /\ \E r \in Reports :
          /\ r.status # remote[t].status
          /\ remote' = [remote EXCEPT ![t] = r]
    /\ UNCHANGED <<config, AI_CLIENT, built, pc, ncalls, thread_id, run_id,
                   run, client, listed, ret, log, nextThread, nextRun>>

\* lines 98-127
MessagesList(t) ==
    /\ FromLoop
    /\ pc[t] = "messages_list"
    /\ \/ \E msgs \in Listings :
             /\ listed' = [listed EXCEPT ![t] = msgs]
             /\ Logged(t, Entry("messages.list", thread_id[t], NoneVal, "",
                                FALSE))
             /\ ret' = [ret EXCEPT ![t] = BingSearchTry(Returned(
                            SuccessResult(thread_id[t], run_id[t], msgs)))]
             /\ pc' = [pc EXCEPT ![t] = "done"]
       \/ /\ Logged(t, Entry("messages.list", thread_id[t], NoneVal, "", TRUE))
          /\ \E e \in Raises : Fail(t, e)
          /\ listed' = listed
    /\ UNCHANGED <<config, AI_CLIENT, built, ncalls, thread_id, run_id, run,
                   client, remote, nextThread, nextRun>>

Next ==
    \/ \E t \in Active : CallNotConfigured(t)
    \/ \E t \in Active : CallInitialize(t)
    \/ \E t \in Active : CallInitFails(t)
    \/ \E t \in Active : CallInitOk(t)
    \/ \E t \in Active : CallQuery(t)
    \/ \E t \in Active : GetAgent(t)
    \/ \E t \in Active : ThreadsCreate(t)
    \/ \E t \in Active : MessagesCreate(t)
    \/ \E t \in Active : RunsCreate(t)
    \/ \E t \in Active : Sleep(t)
    \/ \E t \in Active : RunsGet(t)
    \/ \E t \in Active : PlatformAdvance(t)
    \/ \E t \in Active : MessagesList(t)

Spec == Init /\ [][Next]_vars
SpecExtract == InitExtract /\ [][Next]_vars
SpecConc == InitConc /\ [][Next]_vars

\* the steps of an invocation that the event loop resumes: an awaited remote
\* call returns or raises, a sleep elapses; a task that holds the loop runs on
Resume(t) ==
    \/ CallInitFails(t)
    \/ CallInitOk(t)
    \/ GetAgent(t)
    \/ ThreadsCreate(t)
    \/ MessagesCreate(t)
    \/ RunsCreate(t)
    \/ Sleep(t)
    \/ RunsGet(t)
    \/ MessagesList(t)

\* one invocation whose loop is followed without end; the event loop resumes
\* a task that can go on, the platform owes nothing
SpecLive ==
    /\ InitLive
    /\ [][Next]_vars
    /\ \A t \in Tasks : WF_vars(Resume(t))

(***************************************************************************)
(* Vocabulary of the properties.                                           *)
(***************************************************************************)
Done(t) == pc[t] = "done"
Payload(t) == ret[t].value
Keys(t) == DOMAIN ret[t].value

\* query_agent returned a Result (the payload has a success field)
IsResult(t) == Done(t) /\ ret[t].kind = "return" /\ "success" \in Keys(t)

IsInfix(sub, s) ==
    \E i \in 0..(Len(s) - Len(sub)) : SubSeq(s, i + 1, i + Len(sub)) = sub

IsSuffix(sub, s) ==
    Len(sub) <= Len(s) /\ SubSeq(s, Len(s) - Len(sub) + 1, Len(s)) = sub

\* positions of this invocation's calls of one operation
Calls(t, op) == {i \in DOMAIN log[t] : log[t][i].op = op}

\* the identifiers of the threads and runs this invocation created
ThreadsCreated(t) ==
    {log[t][i].thread_id : i \in {j \in Calls(t, "threads.create") :
                                    ~log[t][j].raised}}
RunsCreated(t) ==
    {log[t][i].run_id : i \in {j \in Calls(t, "runs.create") :
                                 ~log[t][j].raised}}

\* the statuses the client returned, in order: all of them, and the fetches' only
RECURSIVE StatusesOf(_, _)
StatusesOf(entries, ops) ==
    IF entries = <<>> THEN <<>>
    ELSE (IF Head(entries).op \in ops /\ ~Head(entries).raised
          THEN <<Head(entries).status>> ELSE <<>>)
         \o StatusesOf(Tail(entries), ops)

StatusesReturned(t) == StatusesOf(log[t], {"runs.create", "runs.get"})
FetchStatuses(t) == StatusesOf(log[t], {"runs.get"})

Sleeps(t) == Cardinality(Calls(t, "sleep"))
Fetches(t) == Cardinality(Calls(t, "runs.get"))

\* some call of this invocation raised
SomeRaised(t) == \E i \in DOMAIN log[t] : log[t][i].raised

\* the listing holds an agent-authored message
HasAgentMessage(msgs) == \E i \in DOMAIN msgs : msgs[i].role = RoleAgent

(***************************************************************************)
(* C1.  When the poll loop ends with status 'failed', the Result has       *)
(* success = false, a non-empty error embedding the run's last-error text  *)
(* as the platform reported it, and thread_id and run_id non-empty and     *)
(* equal to the identifiers of the thread and run this invocation created. *)
(***************************************************************************)
C1_FailedRunResult ==
    \A t \in Tasks :
        run[t].status = "failed" =>
            /\ IsResult(t)
            /\ Payload(t).success = FALSE
            /\ "error" \in Keys(t)
            /\ Payload(t).error # <<>>
            /\ IsInfix(Format(remote[t].last_error), Payload(t).error)
            /\ {"thread_id", "run_id"} \subseteq Keys(t)
            /\ Truthy(Payload(t).thread_id)
            /\ Truthy(Payload(t).run_id)
            /\ ThreadsCreated(t) = {Payload(t).thread_id}
            /\ RunsCreated(t) = {Payload(t).run_id}

\* a run seen failed by a status fetch, with an error text from the platform
C1_Witness ==
    \E t \in Tasks :
        /\ Done(t)
        /\ run[t].status = "failed"
        /\ remote[t].last_error = <<"rate_limit_exceeded">>
        /\ Fetches(t) >= 1

(***************************************************************************)
(* C2.  Every Result of query_agent: success = true only if the run        *)
(* reached 'completed' or an agent-authored message was retrieved;         *)
(* success = false only with a non-empty error and absent or empty         *)
(* citations.                                                              *)
(***************************************************************************)
C2_SuccessMeansCompletedOrAnswered ==
    \A t \in Tasks :
        IsResult(t) =>
            /\ Payload(t).success =>
                   \/ run[t].status = "completed"
                   \/ HasAgentMessage(listed[t])
            /\ ~Payload(t).success =>
                   /\ "error" \in Keys(t)
                   /\ Payload(t).error # <<>>
                   /\ "citations" \in Keys(t) => Payload(t).citations = <<>>

(***************************************************************************)
(* C3.  As stated: a client scripted to return 'queued', 'in_progress',    *)
(* 'completed' makes query_agent sleep exactly 2 times and fetch the       *)
(* status exactly 3 times before it lists the messages (whether the three  *)
(* statuses are all the client returned or those of the fetches).          *)
(***************************************************************************)
Script == <<"queued", "in_progress", "completed">>

C3_TwoSleepsThreeFetches ==
    \A t \in Tasks :
        (/\ pc[t] = "messages_list"
         /\ StatusesReturned(t) = Script \/ FetchStatuses(t) = Script)
        => Sleeps(t) = 2 /\ Fetches(t) = 3

(***************************************************************************)
(* C3, amended.  Every fetch follows one sleep, so sleeps and fetches are  *)
(* equal in number when the messages are listed: 2 and 2 when run creation *)
(* returns 'queued' and the fetches 'in_progress', 'completed'; 3 and 3    *)
(* when the fetches return all three.                                      *)
(***************************************************************************)
C3_SleepsEqualFetches ==
    \A t \in Tasks :
        pc[t] = "messages_list" =>
            /\ Sleeps(t) = Fetches(t)
            /\ StatusesReturned(t) = Script
                   => Sleeps(t) = 2 /\ Fetches(t) = 2
            /\ FetchStatuses(t) = Script
                   => Sleeps(t) = 3 /\ Fetches(t) = 3

C3_Witness ==
    \E t \in Tasks :
        /\ pc[t] = "messages_list"
        /\ StatusesReturned(t) = Script

(***************************************************************************)
(* C4.  The citations are the rendered strings of the selected message's   *)
(* annotations, each exactly once, in order of first occurrence; and when  *)
(* there are citations the result ends with the Sources section recomputed *)
(* from them: the header line, then one bulleted line per citation in the  *)
(* same order.                                                             *)
(***************************************************************************)
\* the last agent-authored message of a listing
LastAgentIndex(msgs) ==
    CHOOSE i \in DOMAIN msgs :
        /\ msgs[i].role = RoleAgent
        /\ \A j \in DOMAIN msgs : msgs[j].role = RoleAgent => j <= i

SelectedAnnotations(msgs) ==
    IF HasAgentMessage(msgs)
    THEN msgs[LastAgentIndex(msgs)].url_citation_annotations
    ELSE <<>>

Rendered(annotations) ==
    [i \in DOMAIN annotations |-> RenderCitation(annotations[i])]

FirstIndex(seq, x) ==
    CHOOSE i \in DOMAIN seq : seq[i] = x /\ \A j \in 1..(i - 1) : seq[j] # x

\* c holds each element of r exactly once, in order of first occurrence in r
IsDedupOf(c, r) ==
    /\ {c[i] : i \in DOMAIN c} = {r[i] : i \in DOMAIN r}
    /\ \A i, j \in DOMAIN c : i < j => FirstIndex(r, c[i]) < FirstIndex(r, c[j])

\* the Sources section as lines: "## Sources", then "- <citation>" per entry
RECURSIVE BulletLines(_)
BulletLines(citations) ==
    IF citations = <<>> THEN <<>>
    ELSE <<"\n", "-", " ">> \o Head(citations) \o BulletLines(Tail(citations))

SourcesSection(citations) ==
    <<"#", "#", " ", "S", "o", "u", "r", "c", "e", "s">>
    \o BulletLines(citations)

\* s ends with section, and section starts on a line of its own
EndsWithLines(s, section) ==
    /\ IsSuffix(section, s)
    /\ Len(s) > Len(section) => s[Len(s) - Len(section)] = "\n"

C4_CitationsDedupedAndSourcesRoundTrip ==
    \A t \in Tasks :
        (IsResult(t) /\ Payload(t).success) =>
            /\ IsDedupOf(Payload(t).citations,
                         Rendered(SelectedAnnotations(listed[t])))
            /\ Payload(t).citations # <<>> =>
                   EndsWithLines(Payload(t).result,
                                 SourcesSection(Payload(t).citations))

\* annotations with a repeated rendering, two distinct citations kept
C4_Witness ==
    \E t \in Tasks :
        /\ IsResult(t)
        /\ Payload(t).success
        /\ Len(Payload(t).citations) >= 2
        /\ Len(SelectedAnnotations(listed[t])) > Len(Payload(t).citations)

(***************************************************************************)
(* C5.  While the endpoint or the agent identifier is unset, every call of *)
(* bing_search returns the not-initialized error payload, makes no remote  *)
(* call and constructs no client, however many calls are made.             *)
(***************************************************************************)
C5_NotConfiguredNeverCalls ==
    (\/ ~Truthy(AZURE_AI_FOUNDRY_PROJECT_ENDPOINT)
     \/ ~Truthy(AZURE_AI_FOUNDRY_AGENT_ID)) =>
        /\ AI_CLIENT = NoneVal
        /\ built = 0
        /\ nextThread = 0
        /\ nextRun = 0
        /\ \A t \in Tasks :
              /\ log[t] = <<>>
              /\ ncalls[t] > 0 =>
                    /\ Done(t)
                    /\ ret[t].kind = "return"
                    /\ Keys(t) = {"error"}
                    /\ InList("not initialized", Payload(t).error)

\* the second call in a row with the endpoint unset
C5_Witness ==
    /\ AZURE_AI_FOUNDRY_PROJECT_ENDPOINT = NoneVal
    /\ Truthy(AZURE_AI_FOUNDRY_AGENT_ID)
    /\ \E t \in Tasks : ncalls[t] = 2 /\ Done(t)

(***************************************************************************)
(* C6.  bing_search never hands an exception to its caller: when a remote  *)
(* call or the client construction raises, the call ends with a payload    *)
(* holding a non-empty error string, and nothing is issued after the step  *)
(* that raised.                                                            *)
(***************************************************************************)
C6_ErrorsBecomePayloads ==
    \A t \in Tasks :
        /\ ret[t].kind # "raise"
        /\ \A i \in DOMAIN log[t] :
              log[t][i].raised =>
                  /\ i = Len(log[t])
                  /\ Done(t)
                  /\ ret[t].kind = "return"
                  /\ Keys(t) = {"error"}
                  /\ Payload(t).error # <<>>

\* a status fetch raised after the run had been polled once already
C6_Witness ==
    \E t \in Tasks :
        /\ Done(t)
        /\ Fetches(t) = 2
        /\ log[t][Len(log[t])].op = "runs.get"
        /\ log[t][Len(log[t])].raised

(***************************************************************************)
(* C7.  One invocation issues thread creation, message posting and run     *)
(* creation at most once each and issues nothing after a step that raised; *)
(* an invocation that returns a Result created exactly one thread and one  *)
(* run on the platform.                                                    *)
(***************************************************************************)
C7_OneThreadOneRun ==
    /\ nextRun <= nextThread
    /\ \A t \in Tasks :
          /\ Cardinality(Calls(t, "threads.create")) <= 1
          /\ Cardinality(Calls(t, "messages.create")) <= 1
          /\ Cardinality(Calls(t, "runs.create")) <= 1
          /\ \A i \in DOMAIN log[t] : log[t][i].raised => i = Len(log[t])
          /\ IsResult(t) =>
                /\ Cardinality(ThreadsCreated(t)) = 1
                /\ Cardinality(RunsCreated(t)) = 1
    /\ LET started == ncalls[1] + ncalls[2]
       IN nextThread <= started

\* a second invocation that returned a Result
C7_Witness ==
    \E t \in Tasks :
        /\ ncalls[t] = 2
        /\ IsResult(t)
        /\ nextThread = 2
        /\ nextRun = 2

(***************************************************************************)
(* C8.  A run that ends in a final status other than 'failed', on a thread *)
(* that lists no agent-authored message, gives success = true, an empty    *)
(* result and an empty list of citations.                                  *)
(***************************************************************************)
\* messages.list returned in this invocation
Listed(t) ==
    \E i \in Calls(t, "messages.list") : ~log[t][i].raised

C8_NoAgentMessageEmptySuccess ==
    \A t \in Tasks :
        (/\ Listed(t)
         /\ run[t].status \in Terminal \ {"failed"}
         /\ ~HasAgentMessage(listed[t]))
        => /\ IsResult(t)
           /\ Payload(t).success = TRUE
           /\ Payload(t).result = <<>>
           /\ Payload(t).citations = <<>>

\* a completed run whose thread lists caller-role messages only, one with
\* text and an annotation
C8_Witness ==
    \E t \in Tasks :
        /\ Listed(t)
        /\ run[t].status = "completed"
        /\ ~HasAgentMessage(listed[t])
        /\ InList(UserCited, listed[t])

(***************************************************************************)
(* C9.  What bing_search returns has one of three shapes: the success      *)
(* Result; {error} alone, for configuration, client-initialization and     *)
(* remote-call failures, also when thread and run exist already; the       *)
(* failure Result with both identifiers, for a run the platform reports    *)
(* failed.                                                                 *)
(***************************************************************************)
SuccessKeys == {"success", "result", "thread_id", "run_id", "citations"}
FailureKeys == {"success", "error", "thread_id", "run_id", "result"}

C9_ThreePayloadShapes ==
    \A t \in Tasks :
        Done(t) =>
            /\ ret[t].kind = "return"
            /\ \/ Keys(t) = SuccessKeys /\ Payload(t).success = TRUE
               \/ Keys(t) = {"error"}
               \/ Keys(t) = FailureKeys /\ Payload(t).success = FALSE
            /\ Keys(t) = {"error"} <=> (~Configured \/ SomeRaised(t))
            /\ Keys(t) = FailureKeys <=> run[t].status = "failed"
            /\ Keys(t) = FailureKeys =>
                   /\ Payload(t).thread_id = thread_id[t]
                   /\ Payload(t).run_id = run_id[t]
                   /\ Truthy(thread_id[t]) /\ Truthy(run_id[t])
                   /\ thread_id[t] # NoneVal /\ run_id[t] # NoneVal

\* a status fetch raised: thread and run exist, the payload is {error} alone
C9_Witness ==
    \E t \in Tasks :
        /\ Done(t)
        /\ Fetches(t) >= 1
        /\ log[t][Len(log[t])].op = "runs.get"
        /\ log[t][Len(log[t])].raised
        /\ thread_id[t] # NoneVal
        /\ run_id[t] # NoneVal
        /\ Keys(t) = {"error"}


(***************************************************************************)
(* C11.  query_agent does not leave the poll loop while the status it saw  *)
(* last is queued, in_progress or requires_action: in such a state it      *)
(* neither lists messages nor returns a Result, however many polls were    *)
(* made; and the status fetches of a run come one after the other, each    *)
(* after the fetch before it returned such a status and one sleep elapsed. *)
(***************************************************************************)
\* the entry before entry i of the invocation's log is a status that came
\* back, from runs.create or runs.get
StatusBefore(t, i) ==
    /\ i > 1
    /\ log[t][i - 1].op \in {"runs.create", "runs.get"}
    /\ ~log[t][i - 1].raised

C11_NoExitWhilePolling ==
    \A t \in Tasks :
        /\ (pc[t] = "messages_list" \/ Listed(t) \/ IsResult(t))
           => /\ run[t].status # ""
              /\ run[t].status \notin NonTerminal
        /\ \A i \in Calls(t, "messages.list") :
              /\ StatusBefore(t, i)
              /\ log[t][i - 1].status \notin NonTerminal
        /\ \A i \in Calls(t, "runs.get") :
              /\ i > 1
              /\ log[t][i - 1].op = "sleep"
              /\ StatusBefore(t, i - 1)
              /\ log[t][i - 2].status \in NonTerminal
        /\ \A i \in Calls(t, "sleep") :
              /\ StatusBefore(t, i)
              /\ log[t][i - 1].status \in NonTerminal
        /\ pc[t] \in {"sleep", "runs_get"} => run[t].status \in NonTerminal

\* after two fetches the run requires action, and the loop sleeps again
C11_Witness ==
    \E t \in Tasks :
        /\ pc[t] = "sleep"
        /\ Fetches(t) >= 2
        /\ run[t].status = "requires_action"
        /\ ~IsResult(t)


(***************************************************************************)
(* C12.  Under fair scheduling, a call whose run has reached a final       *)
(* status (and so stays there) eventually returns a payload; and a call    *)
(* whose run stays queued, in_progress or requires_action for ever never   *)
(* returns while its status fetches come back: the loop has no timeout, no *)
(* attempt cap and no cancellation.                                        *)
(***************************************************************************)
InFlight(t) == pc[t] \notin {"idle", "done"}

C12_ReturnsIffRunEnds ==
    \A t \in Tasks :
        /\ (InFlight(t) /\ remote[t].status \in Terminal) ~> Done(t)
        /\ []((/\ pc[t] \in {"sleep", "runs_get"}
               /\ [](remote[t].status \in NonTerminal /\ ~SomeRaised(t)))
              => []~Done(t))

\* the loop has gone round more often than the record keeps, and the run
\* still requires action
C12_Witness ==
    \E t \in Tasks :
        /\ mode = "live"
        /\ pc[t] = "runs_get"
        /\ Fetches(t) = MaxPolls
        /\ log[t][Len(log[t])].op = "runs.get"
        /\ remote[t].status = "requires_action"
        /\ run[t].status = "requires_action"


(***************************************************************************)
(* C13.  Within one invocation the remote operations come in the order     *)
(* create-thread, post-message, create-run, status polls, list-messages:   *)
(* the message is posted on a thread already created, the run is started   *)
(* after the message was posted, no status is fetched before the run was   *)
(* created, and messages are listed only after a final status other than   *)
(* 'failed' was seen, never after 'failed'.                                *)
(***************************************************************************)
Rank(op) ==
    CASE op = "construct" -> 0
      [] op = "get_agent" -> 1
      [] op = "threads.create" -> 2
      [] op = "messages.create" -> 3
      [] op = "runs.create" -> 4
      [] op \in {"sleep", "runs.get"} -> 5
      [] op = "messages.list" -> 6

\* entry i of the log is call op, and it returned
ReturnedAt(t, i, op) ==
    /\ i \in DOMAIN log[t]
    /\ log[t][i].op = op
    /\ ~log[t][i].raised

C13_RemoteCallOrder ==
    \A t \in Tasks :
        /\ \A i, j \in DOMAIN log[t] :
              i < j => /\ Rank(log[t][i].op) <= Rank(log[t][j].op)
                       /\ Rank(log[t][j].op) # 5
                          => Rank(log[t][i].op) < Rank(log[t][j].op)
        /\ \A i \in Calls(t, "messages.create") :
              /\ ReturnedAt(t, i - 1, "threads.create")
              /\ log[t][i].thread_id = log[t][i - 1].thread_id
        /\ \A i \in Calls(t, "runs.create") :
              /\ ReturnedAt(t, i - 1, "messages.create")
              /\ log[t][i].thread_id = log[t][i - 1].thread_id
        /\ \A i \in Calls(t, "runs.get") :
              /\ \E j \in 1..(i - 1) : ReturnedAt(t, j, "runs.create")
              /\ log[t][i].run_id \in RunsCreated(t)
        /\ \A i \in Calls(t, "messages.list") :
              /\ StatusBefore(t, i)
              /\ log[t][i - 1].status \in Terminal \ {"failed"}
              /\ log[t][i].thread_id \in ThreadsCreated(t)
              /\ \A j \in 1..(i - 1) : log[t][j].status # "failed"
        /\ "failed" \in {log[t][i].status : i \in DOMAIN log[t]}
           => /\ Calls(t, "messages.list") = {}
              /\ pc[t] # "messages_list"

\* an invocation that went through every kind of remote operation
C13_Witness ==
    \E t \in Tasks :
        /\ Done(t)
        /\ Fetches(t) >= 2
        /\ \A op \in {"get_agent", "threads.create", "messages.create",
                      "runs.create", "runs.get", "messages.list"} :
              Calls(t, op) # {}
        /\ ~SomeRaised(t)


(***************************************************************************)
(* C14.  For every status at which the poll loop ends other than 'failed'  *)
(* ('completed', and also 'cancelled' and 'expired'), query_agent goes on  *)
(* to list the messages and extract, and the Result it returns has         *)
(* success = true and the identifiers of the thread and the run it         *)
(* created.                                                                *)
(***************************************************************************)
\* the status that came back last, "" before the run exists
LastStatus(t) ==
    IF StatusesReturned(t) = <<>> THEN ""
    ELSE StatusesReturned(t)[Len(StatusesReturned(t))]

C14_NonFailedExitSucceeds ==
    \A t \in Tasks :
        LET exited == LastStatus(t) \in Terminal \ {"failed"}
        IN  /\ exited => \/ pc[t] = "messages_list"
                         \/ Calls(t, "messages.list") # {}
            /\ (exited /\ Listed(t)) =>
                   /\ IsResult(t)
                   /\ Payload(t).success = TRUE
                   /\ ThreadsCreated(t) = {Payload(t).thread_id}
                   /\ RunsCreated(t) = {Payload(t).run_id}
                   /\ Payload(t).result = FinalText(Extract(listed[t]).result)
                   /\ Payload(t).citations = Extract(listed[t]).citations
            /\ (exited /\ Done(t)) => IsResult(t) \/ SomeRaised(t)

\* a run that the platform let expire, after a fetch: the Result says success
C14_Witness ==
    \E t \in Tasks :
        /\ IsResult(t)
        /\ Fetches(t) >= 1
        /\ run[t].status = "expired"
        /\ Payload(t).success = TRUE
        /\ Payload(t).run_id = run_id[t]


(***************************************************************************)
(* C15.  As claimed: with valid configuration and the shared client handle *)
(* unset, two concurrent bing_search calls racing on first use can both    *)
(* attempt the construction of the Agent Client, the handle written last   *)
(* overwriting the earlier one.  For two calls to race, a second call must *)
(* be able to find the handle unset while a first one is constructing.     *)
(***************************************************************************)
C15_ConstructionRace ==
    \A t, u \in Tasks :
        (/\ t # u
         /\ Configured
         /\ AI_CLIENT = NoneVal
         /\ pc[t] = "initialize"
         /\ CanCall(u))
        => ENABLED CallInitialize(u)

(***************************************************************************)
(* C15, as the code has it.  A call that found the handle unset holds the  *)
(* event loop until the handle is written or the construction has failed:  *)
(* no other call runs in between, two calls are never both constructing,   *)
(* a construction is attempted only while the handle is unset, and a       *)
(* handle once written is never overwritten; calls in flight together use  *)
(* the one handle.                                                         *)
(***************************************************************************)
Querying(t) == InFlight(t) /\ pc[t] # "initialize"

C15_NoConstructionRace ==
    /\ [](\A t, u \in Tasks :
             /\ pc[t] = "initialize" =>
                   /\ running = t
                   /\ AI_CLIENT = NoneVal
                   /\ t # u => /\ pc[u] # "initialize"
                               /\ ~ENABLED CallInitialize(u)
                               /\ ~ENABLED CallQuery(u)
                               /\ ~ENABLED GetAgent(u)
             /\ (Querying(t) /\ Querying(u)) =>
                   /\ client[t] = AI_CLIENT
                   /\ client[u] = AI_CLIENT
                   /\ AI_CLIENT # NoneVal)
    /\ [][/\ AI_CLIENT # NoneVal => AI_CLIENT' = AI_CLIENT
          /\ built' # built => AI_CLIENT = NoneVal]_vars

\* two first calls in flight together: one construction, one handle
C15_Witness ==
    /\ mode = "conc"
    /\ \A t \in Tasks : Querying(t) /\ ncalls[t] = 1
    /\ built = 1
    /\ AI_CLIENT = ClientHandle(1)
    /\ \E t \in Tasks : log[t] # <<>> /\ log[t][1].op = "construct"
    /\ \E t \in Tasks : Calls(t, "construct") = {}


(***************************************************************************)
(* C16.  Over sequential and concurrent bing_search calls the shared       *)
(* client handle is constructed at most once, on first use: once set it is *)
(* never replaced and every later query uses that handle; a construction   *)
(* is attempted again only after a failed one, which leaves the handle     *)
(* unset and makes its call return the initialization-failure payload      *)
(* with no remote call made.                                               *)
(***************************************************************************)
\* the invocation's construction of the client raised
ConstructionFailed(t) ==
    /\ log[t] # <<>>
    /\ log[t][1].op = "construct"
    /\ log[t][1].raised

C16_HandleBuiltOnce ==
    /\ [](/\ AI_CLIENT # NoneVal => AI_CLIENT = ClientHandle(built)
          /\ \A t \in Tasks :
                /\ Querying(t) => client[t] # NoneVal
                /\ client[t] # NoneVal => client[t] = AI_CLIENT
                /\ Calls(t, "construct") \subseteq {1}
                /\ ConstructionFailed(t) =>
                      /\ Done(t)
                      /\ Payload(t) = ClientInitError
                      /\ Len(log[t]) = 1
                      /\ thread_id[t] = NoneVal /\ run_id[t] = NoneVal)
    /\ [][/\ AI_CLIENT # NoneVal => AI_CLIENT' = AI_CLIENT
          /\ built' # built => /\ AI_CLIENT = NoneVal
                               /\ built' = built + 1
          /\ AI_CLIENT' # AI_CLIENT => built' # built
          /\ \A t \in Tasks :
                (ConstructionFailed(t)' /\ built' # built /\ pc'[t] # pc[t])
                => AI_CLIENT' = NoneVal /\ nextThread' = nextThread]_vars

\* a construction failed and the next one succeeded; a second call of one
\* task has its Result while the other task queries with the same handle
C16_Witness ==
    /\ mode = "conc"
    /\ built = 2
    /\ AI_CLIENT = ClientHandle(2)
    /\ \E t, u \in Tasks :
          /\ t # u
          /\ ncalls[t] = 2
          /\ IsResult(t)
          /\ client[t] = AI_CLIENT
          /\ Querying(u)
          /\ client[u] = AI_CLIENT


(***************************************************************************)
(* C17.  However two or more concurrent queries interleave, each creates   *)
(* its own thread and run, polls only the run it created, lists only the   *)
(* messages of its own thread and returns its own thread_id and run_id;    *)
(* the Result of a query does not depend on the progress, status or        *)
(* failure of another query's run.                                         *)
(***************************************************************************)
\* what the invocation's own run and listing make of its Result
OwnResult(t) ==
    IF run[t].status = "failed"
    THEN FailureResult(thread_id[t], run_id[t], run[t].last_error)
    ELSE SuccessResult(thread_id[t], run_id[t], listed[t])

\* the locals and the outcome of a task's invocation
Invocation(t) ==
    <<pc[t], thread_id[t], run_id[t], run[t], listed[t], ret[t], log[t]>>

C17_QueriesIsolated ==
    /\ [](\A t \in Tasks :
             /\ \A i \in DOMAIN log[t] :
                   /\ log[t][i].thread_id \in {NoneVal} \cup ThreadsCreated(t)
                   /\ log[t][i].run_id \in {NoneVal} \cup RunsCreated(t)
             /\ \A i \in Calls(t, "runs.get") :
                   /\ log[t][i].run_id = run_id[t]
                   /\ log[t][i].thread_id = thread_id[t]
                   /\ RunsCreated(t) = {run_id[t]}
             /\ \A i \in Calls(t, "messages.list") :
                   /\ log[t][i].thread_id = thread_id[t]
                   /\ ThreadsCreated(t) = {thread_id[t]}
             /\ IsResult(t) =>
                   /\ ThreadsCreated(t) = {Payload(t).thread_id}
                   /\ RunsCreated(t) = {Payload(t).run_id}
                   /\ Payload(t) = OwnResult(t)
             /\ \A u \in Tasks \ {t} :
                   /\ ThreadsCreated(t) \cap ThreadsCreated(u) = {}
                   /\ RunsCreated(t) \cap RunsCreated(u) = {}
                   /\ thread_id[t] # NoneVal => thread_id[t] # thread_id[u]
                   /\ run_id[t] # NoneVal => run_id[t] # run_id[u])
    /\ [][\A t \in Tasks :
             \/ Invocation(t)' = Invocation(t)
             \/ /\ pc'[t] # pc[t]
                /\ \A u \in Tasks \ {t} : Invocation(u)' = Invocation(u)
                /\ (run'[t] # run[t] /\ run'[t] # NoRun) => run'[t] = remote'[t]
         ]_vars

\* two queries interleaved, one run failed and one answered: the first task
\* created the first thread and the second run
C17_Witness ==
    /\ mode = "conc"
    /\ IsResult(1) /\ IsResult(2)
    /\ Payload(1).success = FALSE
    /\ Payload(2).success = TRUE
    /\ Payload(1).thread_id = ThreadId(1) /\ Payload(1).run_id = RunId(2)
    /\ Payload(2).thread_id = ThreadId(2) /\ Payload(2).run_id = RunId(1)
    /\ Fetches(1) = 1 /\ Fetches(2) = 1
    /\ HasAgentMessage(listed[2])


(***************************************************************************)
(* C18.  As claimed: for every sequence of text segments of the selected   *)
(* agent message, with no citations, result is each segment followed by    *)
(* one line break, all joined, with trailing whitespace only trimmed and   *)
(* no Sources section; leading whitespace of the first segment is kept.    *)
(***************************************************************************)
SelectedTexts(msgs) ==
    IF HasAgentMessage(msgs)
    THEN msgs[LastAgentIndex(msgs)].text_messages
    ELSE <<>>

\* each segment followed by one line break
RECURSIVE LinesOf(_)
LinesOf(segments) ==
    IF segments = <<>> THEN <<>>
    ELSE Head(segments) \o <<"\n">> \o LinesOf(Tail(segments))

\* r is s without i characters at its start and j at its end, all of them
\* whitespace, and as many as there are
TrimOf(r, s, i, j) ==
    /\ i + j <= Len(s)
    /\ r = SubSeq(s, i + 1, Len(s) - j)
    /\ \A k \in 1..i : s[k] \in Whitespace
    /\ \A k \in (Len(s) - j + 1)..Len(s) : s[k] \in Whitespace
    /\ (j < Len(s) /\ r # <<>>) => r[Len(r)] \notin Whitespace

\* the selected agent message has text or none, and no citations
NoCitations(t) ==
    /\ IsResult(t)
    /\ Payload(t).success
    /\ HasAgentMessage(listed[t])
    /\ SelectedAnnotations(listed[t]) = <<>>

C18_TrailingWhitespaceOnlyTrimmed ==
    \A t \in Tasks :
        NoCitations(t) =>
            LET s == LinesOf(SelectedTexts(listed[t]))
            IN  /\ \E j \in 0..Len(s) : TrimOf(Payload(t).result, s, 0, j)
                /\ Payload(t).citations = <<>>

(***************************************************************************)
(* C18, as the code has it.  With no citations, result is each segment     *)
(* followed by one line break, all joined, with the whitespace at both     *)
(* ends trimmed, and it has no Sources section; segments 'A', 'B' give     *)
(* 'A\nB'; leading whitespace of the first segment is not kept.            *)
(***************************************************************************)
C18_BothEndsTrimmed ==
    \A t \in Tasks :
        NoCitations(t) =>
            LET s == LinesOf(SelectedTexts(listed[t]))
                r == Payload(t).result
            IN  /\ \E i, j \in 0..Len(s) : TrimOf(r, s, i, j)
                /\ r # <<>> => r[1] \notin Whitespace
                /\ Payload(t).citations = <<>>
                /\ ~IsInfix(<<"#", "#", " ", "S">>, r)
                /\ SelectedTexts(listed[t]) = <<<<"A">>, <<"B">>>>
                   => r = <<"A", "\n", "B">>

\* a first segment that starts with a blank: the blank is gone from result
C18_Witness ==
    \E t \in Tasks :
        /\ NoCitations(t)
        /\ SelectedTexts(listed[t]) = <<<<" ", "C", " ">>, <<"A">>>>
        /\ Payload(t).result = <<"C", " ", "\n", "A">>


(***************************************************************************)
(* C19.  When the thread lists several agent-authored messages, the text   *)
(* and the citations of the Result come from the last of them in the order *)
(* the platform lists them, and from no other message: not from an earlier *)
(* agent message, not from a caller-role message.                          *)
(***************************************************************************)
\* the text a message gives on its own: its lines, then its Sources section
TextOf(texts, citations) ==
    LinesOf(texts) \o
    (IF citations = <<>> THEN <<>>
     ELSE <<"\n", "\n">> \o SourcesSection(citations) \o <<"\n">>)

AgentMessages(msgs) == {i \in DOMAIN msgs : msgs[i].role = RoleAgent}

C19_LastAgentMessageOnly ==
    \A t \in Tasks :
        (IsResult(t) /\ Payload(t).success /\ HasAgentMessage(listed[t])) =>
            LET last == listed[t][LastAgentIndex(listed[t])]
                alone == SuccessResult(thread_id[t], run_id[t], <<last>>)
                r == Payload(t).result
                full == TextOf(last.text_messages, Payload(t).citations)
            IN  /\ IsDedupOf(Payload(t).citations,
                             Rendered(last.url_citation_annotations))
                /\ \E i, j \in 0..Len(full) : TrimOf(r, full, i, j)
                /\ r # <<>> => r[1] \notin Whitespace
                /\ Payload(t) = alone

\* an agent message with citations, the query, then an agent message without:
\* the Result has the text of the last and no citation
C19_Witness ==
    \E t \in Tasks :
        /\ IsResult(t)
        /\ listed[t] = <<AgentCited, UserMsg, AgentPlain>>
        /\ Cardinality(AgentMessages(listed[t])) = 2
        /\ Payload(t).result = <<"A", "\n", "B">>
        /\ Payload(t).citations = <<>>


(***************************************************************************)
(* C20.  query_agent looks the agent up before any other remote call, so   *)
(* when the agent identifier names no agent the platform can reach, the    *)
(* invocation creates no thread, posts no message and starts no run, and   *)
(* bing_search returns an {error} payload.                                 *)
(***************************************************************************)
RemoteOps ==
    {"get_agent", "threads.create", "messages.create", "runs.create",
     "runs.get", "messages.list"}

C20_AgentLookupFirst ==
    /\ \A t \in Tasks :
          /\ \A i \in DOMAIN log[t] :
                (log[t][i].op \in RemoteOps \ {"get_agent"})
                => \E j \in 1..(i - 1) : ReturnedAt(t, j, "get_agent")
          /\ \A i \in Calls(t, "get_agent") :
                log[t][i].raised =>
                    /\ i = Len(log[t])
                    /\ Done(t)
                    /\ Keys(t) = {"error"}
                    /\ thread_id[t] = NoneVal
                    /\ run_id[t] = NoneVal
    /\ (Configured /\ AZURE_AI_FOUNDRY_AGENT_ID \notin KnownAgents) =>
          /\ nextThread = 0
          /\ nextRun = 0
          /\ \A t \in Tasks :
                /\ \A i \in DOMAIN log[t] :
                      log[t][i].op \in {"construct", "get_agent"}
                /\ pc[t] \in {"idle", "initialize", "get_agent", "done"}
                /\ Done(t) =>
                      /\ Keys(t) = {"error"}
                      /\ Calls(t, "get_agent") # {} =>
                            IsInfix(<<"Error performing Bing search: ">>,
                                    Payload(t).error)

\* the second call with an agent identifier the platform does not know: the
\* client is there, the lookup raised, nothing was created
C20_Witness ==
    \E t \in Tasks :
        /\ AZURE_AI_FOUNDRY_AGENT_ID = <<"asst_gone">>
        /\ ncalls[t] = 2
        /\ Done(t)
        /\ AI_CLIENT # NoneVal
        /\ Len(log[t]) = 1
        /\ log[t][1].op = "get_agent"
        /\ log[t][1].raised
        /\ Keys(t) = {"error"}
        /\ nextThread = 0
        /\ nextRun = 0

=============================================================================
